---- MODULE Spec2Model ----
(***************************************************************************)
(* Model of the kURL bundle server (cmd/server/main.go): the HTTP handler  *)
(* bundle, its layer relayer pipe, the error helpers handleHttpError and   *)
(* handleError, and the registry allowlist allowRegistry.                  *)
(*                                                                         *)
(* Each request the server dispatches is one run of bundle.  The handler   *)
(* is cut into steps at its external calls (upstream fetch, HEAD probe,    *)
(* image pull, layer GET, archive write); every step is one action whose   *)
(* outcome (success or the error the call can return) is drawn with \E.    *)
(***************************************************************************)
EXTENDS Integers, Sequences, FiniteSets, TLC

VARIABLES manifest, remote, dirs, sched, rq

vars == <<manifest, remote, dirs, sched, rq>>

(***************************************************************************)
(* Bounds of the model.                                                    *)
(***************************************************************************)
MaxImages == 2
MaxLayers == 2
MaxFiles == 2

\* The requests the server may be handling.
Reqs == {1, 2}

(***************************************************************************)
(* net/http status codes used by the handler.                              *)
(***************************************************************************)
StatusOK == 200
StatusNoContent == 204
StatusNotFound == 404
StatusMethodNotAllowed == 405
StatusUnprocessableEntity == 422
StatusInternalServerError == 500

Methods == {"GET", "HEAD", "OPTIONS", "POST"}

(***************************************************************************)
(* Paths.  A path string is held as the sequence of its pieces between     *)
(* '/' characters: "foo/bar.txt" is <<"foo", "bar.txt">>, "/abs" is        *)
(* <<"", "abs">>, "dir/" is <<"dir", "">> and the empty string is <<"">>.  *)
(* This is a one-to-one encoding of strings.                               *)
(***************************************************************************)
RECURSIVE CleanElems(_, _)
\* path.Clean's lexical pass over the pieces of an unrooted path: empty
\* pieces (doubled or trailing slashes) and "." are dropped, ".." removes
\* the piece before it, and a ".." with nothing before it is kept.
CleanElems(p, out) ==
    IF p = <<>> THEN out
    ELSE LET e == Head(p)
             rest == Tail(p)
         IN  IF e = "" \/ e = "." THEN CleanElems(rest, out)
             ELSE IF e = ".."
                  THEN IF out # <<>> /\ out[Len(out)] # ".."
                       THEN CleanElems(rest, SubSeq(out, 1, Len(out) - 1))
                       ELSE CleanElems(rest, Append(out, ".."))
                  ELSE CleanElems(rest, Append(out, e))

\* filepath.Clean of an unrooted path; the empty result is ".".
Clean(p) ==
    LET c == CleanElems(p, <<>>)
    IN  IF c = <<>> THEN <<".">> ELSE c

\* filepath.Join(dir, name) for a non-empty, slash-free dir: empty elements
\* are ignored, the rest joined with '/' and the result cleaned.
Join(dir, name) ==
    IF name = <<"">> THEN Clean(<<dir>>) ELSE Clean(<<dir>> \o name)

\* The name of the archive entry of the image at 0-based position i:
\* An entry name that leaves the image's index out.
ImageEntryNameFixed(i) == <<"kurl", "image-overrides", "0.tar">>

\* fmt.Sprintf("kurl/image-overrides/%d.tar", i).
ImageEntryName(i) == <<"kurl", "image-overrides", ToString(i) \o ".tar">>

(***************************************************************************)
(* The registry allowlist.                                                 *)
(***************************************************************************)
ImageRefs == {"docker.io/library/alpine", "evil.example.com/foo:latest"}

\* References that reach every branch of allowRegistry.
AllowRefs ==
    ImageRefs \cup
    {"registry-1.docker.io/library/alpine", "docker.io.evil.com/foo",
     "localhost:5000/foo", "gcr.io:bad/foo", "ttl.sh/abc:1h", "io/foo"}

\* The authority of "https://" + image, the text up to the first '/': the
\* labels of its host and the text after the host's ':' ("" when none).
Authority(image) ==
    CASE image = "docker.io/library/alpine" ->
           [host |-> <<"docker", "io">>, port |-> ""]
      [] image = "evil.example.com/foo:latest" ->
           [host |-> <<"evil", "example", "com">>, port |-> ""]
      [] image = "registry-1.docker.io/library/alpine" ->
           [host |-> <<"registry-1", "docker", "io">>, port |-> ""]
      [] image = "docker.io.evil.com/foo" ->
           [host |-> <<"docker", "io", "evil", "com">>, port |-> ""]
      [] image = "localhost:5000/foo" ->
           [host |-> <<"localhost">>, port |-> "5000"]
      [] image = "gcr.io:bad/foo" ->
           [host |-> <<"gcr", "io">>, port |-> "bad"]
      [] image = "ttl.sh/abc:1h" ->
           [host |-> <<"ttl", "sh">>, port |-> ""]
      [] image = "io/foo" ->
           [host |-> <<"io">>, port |-> ""]
      [] OTHER -> [host |-> <<>>, port |-> ""]

\* The port texts url.Parse accepts: empty or decimal digits.
ValidPorts == {"", "5000"}

\* url.Parse("https://" + image): an error for an invalid port, else the
\* URL, of which the handler reads Hostname(), the host without the port.
UrlParse(image) ==
    LET a == Authority(image)
    IN  IF a.port \in ValidPorts
        THEN [err |-> FALSE, host |-> a.host]
        ELSE [err |-> TRUE, host |-> <<>>]

\* url.Parse("https://" + image).Hostname(), as its dot-separated labels.
Hostname(image) == UrlParse(image).host

\* The public suffix rules the hostnames of ImageRefs fall under.
PublicSuffixes == {<<"io">>, <<"com">>, <<"sh">>}

\* The last n labels of a hostname.
LastLabels(host, n) == SubSeq(host, Len(host) - n + 1, Len(host))

\* publicsuffix.EffectiveTLDPlusOne: the public suffix plus one more label,
\* or the empty name (with an error the caller drops) when the hostname has
\* no label before its suffix.
EffectiveTLDPlusOne(host) ==
    LET ns == {n \in 1..Len(host) : LastLabels(host, n) \in PublicSuffixes}
        n == IF ns = {} THEN 1 ELSE CHOOSE m \in ns : \A k \in ns : k <= m
    IN  IF Len(host) <= n THEN <<>> ELSE LastLabels(host, n + 1)

Allowlist ==
    { <<"docker", "io">>, <<"gcr", "io">>, <<"ghcr", "io">>, <<"azurecr", "io">>,
      <<"ttl", "sh">>, <<"ecr", "us-east-1", "amazonaws", "com">> }

\* A validator that compares the whole hostname with the allowlist.
allowRegistryByHostname(image) == Hostname(image) \in Allowlist

\* func allowRegistry.
allowRegistry(image) ==
    LET parsed == UrlParse(image)
    IN  IF parsed.err THEN FALSE
        ELSE EffectiveTLDPlusOne(parsed.host) \in Allowlist

(***************************************************************************)
(* BundleManifest and the world outside the server.                        *)
(***************************************************************************)
LayerURLs == {"https://cdn/l1.tar.gz", "https://cdn/l2.tar.gz"}

FileNames == <<"install.sh", "join.sh", "upgrade.sh", "tasks.sh">>

FilePaths == {<<FileNames[k]>> : k \in 1..MaxFiles}

\* The literal content the upstream manifest gives a file; join.sh is empty.
FileContents(path) == IF path = <<"join.sh">> THEN "" ELSE "#!/bin/bash"

RECURSIVE SeqsUpTo(_, _)
\* The sequences over S of length at most n.
SeqsUpTo(S, n) ==
    IF n = 0 THEN {<<>>}
    ELSE LET shorter == SeqsUpTo(S, n - 1)
         IN  shorter \cup {Append(q, x) : q \in shorter, x \in S}

\* type BundleManifest struct { Layers []string; Files map[string]string;
\* Images []string }
BundleManifest ==
    [layers : SeqsUpTo(LayerURLs, MaxLayers),
     files : {[p \in F |-> FileContents(p)] : F \in SUBSET FilePaths},
     images : SeqsUpTo(ImageRefs, MaxImages)]

\* What json.Unmarshal leaves in a fresh BundleManifest when the body is a
\* JSON object without the three fields.
EmptyManifest == [layers |-> <<>>, files |-> <<>>, images |-> <<>>]

\* Entry names the second layer's archive may hold.
EntryNames ==
    { <<"foo", "bar.txt">>, <<"..", "etc">>, <<"", "abs">>, <<"dir", "">> }

\* The remote layer archives: the entries (name, content length) of each.
Remotes ==
    { [u \in LayerURLs |->
         IF u = "https://cdn/l1.tar.gz"
         THEN << [name |-> <<"bin", "kubectl">>, size |-> 1],
                 [name |-> <<"bin", ".keep">>, size |-> 0] >>
         ELSE << [name |-> n, size |-> 1] >>] : n \in EntryNames }

InRange(q) == {q[k] : k \in 1..Len(q)}

\* What the upstream manifest service may answer: a transport failure, the
\* installer's manifest (or a body that is not JSON) with 200, and with 404
\* or 500 an error body that is a JSON object or not JSON at all.
UpstreamResponses ==
    {[err |-> TRUE, code |-> 0, body |-> ""]}
    \cup {[err |-> FALSE, code |-> StatusOK, body |-> b] :
            b \in {"manifest", "garbage"}}
    \cup {[err |-> FALSE, code |-> c, body |-> b] :
            c \in {StatusNotFound, StatusInternalServerError},
            b \in {"errjson", "garbage"}}

\* json.Unmarshal(body, bundle): the error, and the manifest it filled in.
Unmarshal(body) ==
    CASE body = "manifest" -> [err |-> FALSE, bundle |-> manifest]
      [] body = "errjson"  -> [err |-> FALSE, bundle |-> EmptyManifest]
      [] OTHER             -> [err |-> TRUE, bundle |-> EmptyManifest]

\* http.StatusText(code) for the codes handleHttpError is called with.
StatusText(code) ==
    CASE code = StatusInternalServerError -> "Internal Server Error"
      [] code = StatusUnprocessableEntity -> "Unprocessable Entity"
      [] code = StatusMethodNotAllowed -> "Method Not Allowed"
      [] OTHER -> ""

(***************************************************************************)
(* The state of one run of the handler.  status = 0: no status line has    *)
(* been written.  body holds the chunks written to the response, "gz" for  *)
(* bytes of the compressed archive and the text itself for a plain-text    *)
(* message.  tempDir = "": none.  The fields from pulls on are a log of     *)
(* what the run did.                                                       *)
(***************************************************************************)
InitReq ==
    [pc |-> "idle", method |-> "", asked |-> FALSE, upstream |-> 0,
     upbody |-> "", resolved |-> FALSE, bundle |-> EmptyManifest,
     i |-> 0, li |-> 0, ei |-> 0, filesLeft |-> {},
     status |-> 0, header |-> {}, sentHeader |-> {}, body |-> <<>>,
     superfluous |-> FALSE,
     streaming |-> FALSE, gzWrote |-> FALSE, twErr |-> FALSE, entries |-> <<>>,
     tempDir |-> "", deferred |-> <<>>, fds |-> 0, pulling |-> {},
     pulls |-> <<>>, gets |-> <<>>, probes |-> <<>>, allowed |-> <<>>,
     awrites |-> 0, closes |-> <<>>, closeErrs |-> 0, notified |-> 0,
     failed |-> FALSE, failAt |-> 0]

\* w.Header().Set(k, v)
SetHeader(s, k, v) ==
    [s EXCEPT !.header = {p \in @ : p[1] # k} \cup {<<k, v>>}]

\* w.WriteHeader(code): the first call fixes the status and the headers; a
\* later call is logged as superfluous and changes nothing.
WriteHeader(s, code) ==
    IF s.status # 0 THEN [s EXCEPT !.superfluous = TRUE]
    ELSE [s EXCEPT !.status = code, !.sentHeader = s.header]

\* w.Write(chunk): writes the 200 status first if none was written; a HEAD
\* response takes no body; ok = FALSE is a write the connection refuses.
RespWrite(s, chunk, ok) ==
    LET s1 == IF s.status = 0 THEN WriteHeader(s, StatusOK) ELSE s
    IN  IF ok /\ s.method # "HEAD"
        THEN IF chunk = "gz" /\ s1.body # <<>> /\ s1.body[Len(s1.body)] = "gz"
             THEN s1
             ELSE [s1 EXCEPT !.body = Append(@, chunk)]
        ELSE s1

\* http.Error(w, msg, code)
HttpError(s, msg, code) ==
    LET s1 == SetHeader(SetHeader(s, "Content-Type", "text/plain; charset=utf-8"),
                        "X-Content-Type-Options", "nosniff")
    IN  RespWrite(WriteHeader(s1, code), msg, TRUE)

\* The first failure of a run, and whether a status had been written by then.
MarkFailed(s) ==
    IF s.failed THEN s ELSE [s EXCEPT !.failed = TRUE, !.failAt = s.status]

\* func handleError: log and notify bugsnag.
handleError(s) == [MarkFailed(s) EXCEPT !.notified = @ + 1]

\* func handleHttpError: log, http.Error with the status text, notify.
handleHttpError(s, code) ==
    [HttpError(MarkFailed(s), StatusText(code), code) EXCEPT !.notified = @ + 1]

\* One write of the tar writer (a header block, an entry's content or the
\* footer) through the gzip writer to the response.  Once a write has failed
\* the tar writer keeps the error and passes nothing on.
TarWrite(s, ok) ==
    IF s.twErr THEN [s EXCEPT !.awrites = @ + 1]
    ELSE [RespWrite(s, "gz", ok) EXCEPT !.gzWrote = TRUE, !.twErr = ~ok,
                                         !.awrites = @ + 1]

\* archive.WriteHeader(hdr): the entry is in the archive when the write
\* succeeded.  The handler never looks at the error.
TarWriteHeader(s, entry, ok) ==
    LET s1 == TarWrite(s, ok)
    IN  IF s1.twErr THEN s1 ELSE [s1 EXCEPT !.entries = Append(@, entry)]

\* io.Copy(archive, src) of size bytes: no Write call is made for an empty
\* source; err tells whether the copy failed.
TarCopy(s, size, ok) ==
    IF size = 0 THEN [err |-> FALSE, s |-> s]
    ELSE LET s1 == TarWrite(s, ok) IN [err |-> s1.twErr, s |-> s1]

\* archive.Write(b) of size bytes: the kept error is returned even for an
\* empty b; an empty b is not passed on.
TarWriteBytes(s, size, ok) ==
    IF s.twErr THEN [err |-> TRUE, s |-> [s EXCEPT !.awrites = @ + 1]]
    ELSE IF size = 0 THEN [err |-> FALSE, s |-> [s EXCEPT !.awrites = @ + 1]]
    ELSE LET s1 == TarWrite(s, ok) IN [err |-> s1.twErr, s |-> s1]

\* The server's part when the handler returns: a handler that wrote nothing
\* gets the 200 status line with the headers it set.
Finish(s) ==
    [(IF s.status = 0 THEN WriteHeader(s, StatusOK) ELSE s) EXCEPT !.pc = "done"]

\* A return after the deferred close of the writers was registered.
Unwind(s) == [s EXCEPT !.pc = "return"]

\* The loops with the inline files written before the layers.
LoopPcFilesFirst(s) ==
    IF s.i < Len(s.bundle.images) THEN "image"
    ELSE IF s.filesLeft # {} THEN "file"
    ELSE IF s.li < Len(s.bundle.layers) THEN "layer"
    ELSE "return"

\* The fixed order of the three loops of bundle: where the handler stands
\* when it is not inside an iteration.
LoopPc(s) ==
    IF s.i < Len(s.bundle.images) THEN "image"
    ELSE IF s.li < Len(s.bundle.layers) THEN "layer"
    ELSE IF s.filesLeft # {} THEN "file"
    ELSE "return"

AtLoop(s) == [s EXCEPT !.pc = LoopPc(s)]

\* os.RemoveAll(d)
RemoveAll(fs, D) == [d \in DOMAIN fs |-> IF d \in D THEN 0 ELSE fs[d]]

(***************************************************************************)
(* Scheduling of the requests: "single" serves one request, "serial" one   *)
(* after the other, "concurrent" lets net/http run the handlers together.  *)
(***************************************************************************)
Dispatchable(r) ==
    CASE sched = "single" -> r = 1
      [] sched = "serial" -> \A q \in Reqs : q < r => rq[q].pc = "done"
      [] OTHER -> TRUE

Set(r, s) == rq' = [rq EXCEPT ![r] = s]

(***************************************************************************)
(* bundle, lines 76-100: method branching.                                 *)
(***************************************************************************)
\* A handler without the branch of lines 77-84.
IsPreflightNever(m) == FALSE

\* Line 77: r.Method == "OPTIONS".
IsPreflight(m) == m = "OPTIONS"

Serve(r) ==
    /\ rq[r].pc = "idle"
    /\ Dispatchable(r)
    /\ \E m \in Methods :
         LET s == [rq[r] EXCEPT !.method = m]
         IN  Set(r,
               IF IsPreflight(m)
               THEN Finish(WriteHeader(
                      SetHeader(SetHeader(SetHeader(SetHeader(s,
                        "Access-Control-Allow-Origin", "*"),
                        "Access-Control-Allow-Methods", "GET"),
                        "Access-Control-Allow-Headers",
                        "Access-Control-Allow-Origin, Content-Type"),
                        "Access-Control-Max-Age", "86400"),
                      StatusNoContent))
               ELSE IF m # "GET" /\ m # "HEAD"
               THEN Finish(HttpError(s, StatusText(StatusMethodNotAllowed),
                                     StatusMethodNotAllowed))
               ELSE [s EXCEPT !.pc = "resolve"])
    /\ UNCHANGED <<manifest, remote, dirs, sched>>

(***************************************************************************)
(* bundle, lines 101-137: the upstream manifest lookup.                    *)
(***************************************************************************)
\* A handler without the branch of lines 127-130.
IsNotFoundNever(code) == FALSE

\* Line 127: resp.StatusCode == http.StatusNotFound.
IsNotFound(code) == code = StatusNotFound

Resolve(r) ==
    /\ rq[r].pc = "resolve"
    /\ \E up \in UpstreamResponses :
         LET s == [rq[r] EXCEPT !.asked = TRUE, !.upstream = up.code,
                                !.upbody = up.body]
             parsed == Unmarshal(up.body)
         IN  Set(r,
               IF up.err
               THEN Finish(handleHttpError(s, StatusInternalServerError))
               ELSE IF IsNotFound(up.code)
               THEN Finish(HttpError(s, up.body, StatusNotFound))
               ELSE IF parsed.err
               THEN Finish(handleHttpError(s, StatusInternalServerError))
               ELSE [s EXCEPT !.bundle = parsed.bundle, !.resolved = TRUE,
                               !.pc = "probe"])
    /\ UNCHANGED <<manifest, remote, dirs, sched>>

(***************************************************************************)
(* bundle, lines 139-153: one HEAD probe of the preflight loop.            *)
(***************************************************************************)
ProbeOutcomes == {"ok", "status", "transport"}

\* A preflight that never looks at the outcome of the probe.
ProbePassesUnchecked(out) == TRUE

\* The probe passes when http.Head returned no error and the status is 200.
ProbePasses(out) == out = "ok"

Probe(r) ==
    /\ rq[r].pc = "probe"
    /\ rq[r].li < Len(rq[r].bundle.layers)
    /\ \E out \in ProbeOutcomes :
         LET s == [rq[r] EXCEPT !.probes = Append(@, out)]
         IN  Set(r,
               IF ProbePasses(out)
               THEN [s EXCEPT !.li = @ + 1]
               ELSE Finish(handleHttpError(s, StatusInternalServerError)))
    /\ UNCHANGED <<manifest, remote, dirs, sched>>

(***************************************************************************)
(* bundle, lines 155-186: the allowlist loop, the response headers, the    *)
(* return of a HEAD request, and the creation of the two writers.          *)
(***************************************************************************)
\* An allowlist loop that rejects nothing.
FirstDeniedNone(images) == 0

\* The 1-based position of the first image the loop rejects, 0 if none.
FirstDenied(images) ==
    LET bad == {k \in 1..Len(images) : ~allowRegistry(images[k])}
    IN  IF bad = {} THEN 0 ELSE CHOOSE k \in bad : \A j \in bad : k <= j

\* A handler without the return of lines 168-170.
HeadReturnsNever(s) == FALSE

\* Line 168: r.Method == "HEAD".
HeadReturns(s) == s.method = "HEAD"

Allow(r) ==
    /\ rq[r].pc = "probe"
    /\ rq[r].li = Len(rq[r].bundle.layers)
    /\ LET images == rq[r].bundle.images
           k == FirstDenied(images)
           n == IF k = 0 THEN Len(images) ELSE k
           s == [rq[r] EXCEPT
                   !.allowed = [j \in 1..n |-> allowRegistry(images[j])]]
           h == SetHeader(SetHeader(SetHeader(SetHeader(s,
                  "Content-Type", "binary/octet-stream"),
                  "Access-Control-Allow-Origin", "*"),
                  "Content-Disposition", "attachment"),
                  "Transfer-Encoding", "chunked")
       IN  Set(r,
             IF k # 0
             THEN Finish(handleHttpError(s, StatusUnprocessableEntity))
             ELSE IF HeadReturns(s)
             THEN Finish(h)
             ELSE AtLoop([h EXCEPT !.streaming = TRUE, !.i = 0, !.li = 0,
                                   !.filesLeft = DOMAIN s.bundle.files]))
    /\ UNCHANGED <<manifest, remote, dirs, sched>>

(***************************************************************************)
(* bundle, lines 188-202: the image loop up to the scratch directory.      *)
(* ioutil.TempDir picks a name no existing directory has, or fails; the    *)
(* removal of the directory is deferred to the return of the handler.      *)
(***************************************************************************)
\* The names ioutil.TempDir("/images", "temp-image-pull") may draw.
DirNames == {"/images/temp-image-pull1", "/images/temp-image-pull2"}

ImgBegin(r) ==
    /\ rq[r].pc = "image"
    /\ \/ \E d \in {x \in DirNames : dirs[x] = 0} :
            /\ dirs' = [dirs EXCEPT ![d] = r]
            /\ Set(r, [rq[r] EXCEPT !.tempDir = d, !.deferred = Append(@, d),
                                    !.pc = "pull"])
       \/ /\ Set(r, Unwind(handleHttpError(rq[r], StatusInternalServerError)))
          /\ dirs' = dirs
    /\ UNCHANGED <<manifest, remote, sched>>

(***************************************************************************)
(* bundle, lines 204-248: copy.Image from the registry into the scratch    *)
(* directory, from its call to its return.                                 *)
(***************************************************************************)
ImgPullStart(r) ==
    /\ rq[r].pc = "pull"
    /\ Set(r, [rq[r] EXCEPT !.pulling = @ \cup {rq[r].i},
                            !.pulls = Append(@, rq[r].i), !.pc = "pulling"])
    /\ UNCHANGED <<manifest, remote, dirs, sched>>

ImgPullEnd(r) ==
    /\ rq[r].pc = "pulling"
    /\ \E ok \in BOOLEAN :
         LET s == [rq[r] EXCEPT !.pulling = @ \ {rq[r].i}]
         IN  Set(r,
               IF ok THEN [s EXCEPT !.pc = "open"]
               ELSE Unwind(handleHttpError(s, StatusInternalServerError)))
    /\ UNCHANGED <<manifest, remote, dirs, sched>>

(***************************************************************************)
(* bundle, lines 250-260: os.Open of the image archive and f.Stat.  fds    *)
(* counts the handles the handler opened and has not closed; it has no     *)
(* f.Close(), so a handle is left to the finalizer the runtime runs at     *)
(* some time after a collection found it unreachable.                      *)
(***************************************************************************)
ImgOpen(r) ==
    /\ rq[r].pc = "open"
    /\ \E res \in {"ok", "open", "stat"} :
         LET s == rq[r]
             opened == [s EXCEPT !.fds = @ + 1]
         IN  Set(r,
               CASE res = "open" ->
                      Unwind(handleHttpError(s, StatusInternalServerError))
                 [] res = "stat" ->
                      Unwind(handleHttpError(opened, StatusInternalServerError))
                 [] OTHER -> [opened EXCEPT !.pc = "append"])
    /\ UNCHANGED <<manifest, remote, dirs, sched>>

(***************************************************************************)
(* bundle, lines 262-276: the image entry, then the removal of the scratch *)
(* directory.                                                              *)
(***************************************************************************)
\* An image loop without its os.RemoveAll(tempDir).
RemoveAfterAppendMissing(fs, d) == fs

\* os.RemoveAll(tempDir) at the end of an iteration of the image loop.
RemoveAfterAppend(fs, d) == RemoveAll(fs, {d})

ImgAppend(r) ==
    /\ rq[r].pc = "append"
    /\ \E okH \in BOOLEAN, okD \in BOOLEAN :
         LET s == rq[r]
             image == s.bundle.images[s.i + 1]
             entry == [kind |-> "image", name |-> ImageEntryName(s.i),
                       src |-> image, k |-> s.i]
             c == TarCopy(TarWriteHeader(s, entry, okH), 1, okD)
         IN  IF c.err
             THEN /\ Set(r, Unwind(handleHttpError(c.s, StatusInternalServerError)))
                  /\ dirs' = dirs
             ELSE /\ Set(r, AtLoop([c.s EXCEPT !.i = @ + 1]))
                  /\ dirs' = RemoveAfterAppend(dirs, s.tempDir)
    /\ UNCHANGED <<manifest, remote, sched>>

(***************************************************************************)
(* pipe, lines 303-318, and its call at lines 279-285: the GET of a layer. *)
(***************************************************************************)
PipeGet(r) ==
    /\ rq[r].pc = "layer"
    /\ \E res \in {"ok", "transport", "status", "gunzip"} :
         LET s == [rq[r] EXCEPT !.gets = Append(@, rq[r].li)]
         IN  Set(r,
               IF res = "ok" THEN [s EXCEPT !.ei = 0, !.pc = "pipe"]
               ELSE Unwind(handleError(s)))
    /\ UNCHANGED <<manifest, remote, dirs, sched>>

(***************************************************************************)
(* pipe, lines 320-333: one turn of the entry loop.                        *)
(***************************************************************************)
PipeNext(r) ==
    /\ rq[r].pc = "pipe"
    /\ \E res \in {"ok", "next"}, okH \in BOOLEAN, okD \in BOOLEAN :
         LET s == rq[r]
             url == s.bundle.layers[s.li + 1]
             src == remote[url]
         IN  Set(r,
               IF res = "next" THEN Unwind(handleError(s))
               ELSE IF s.ei = Len(src) THEN AtLoop([s EXCEPT !.li = @ + 1])
               ELSE LET header == src[s.ei + 1]
                        entry == [kind |-> "layer",
                                  name |-> Join("kurl", header.name),
                                  src |-> url, k |-> s.ei]
                        c == TarCopy(TarWriteHeader(s, entry, okH),
                                     header.size, okD)
                    IN  IF c.err THEN Unwind(handleError(c.s))
                        ELSE [c.s EXCEPT !.ei = @ + 1])
    /\ UNCHANGED <<manifest, remote, dirs, sched>>

(***************************************************************************)
(* bundle, lines 287-300: one inline file.  The range over the map visits  *)
(* the files in an order the language leaves open.                         *)
(***************************************************************************)
FileAppend(r) ==
    /\ rq[r].pc = "file"
    /\ \E path \in rq[r].filesLeft, okH \in BOOLEAN, okD \in BOOLEAN :
         LET s == rq[r]
             contents == s.bundle.files[path]
             entry == [kind |-> "file", name |-> path, src |-> contents,
                       k |-> 0]
             c == TarWriteBytes(TarWriteHeader(s, entry, okH),
                                IF contents = "" THEN 0 ELSE 1, okD)
         IN  Set(r,
               IF c.err THEN Unwind(handleError(c.s))
               ELSE AtLoop([c.s EXCEPT !.filesLeft = @ \ {path}]))
    /\ UNCHANGED <<manifest, remote, dirs, sched>>

(***************************************************************************)
(* The deferred calls, run last-in first-out when bundle returns: every    *)
(* os.RemoveAll(tempDir) of line 202, then the closure of lines 174-186.   *)
(***************************************************************************)
\* A handler that never closes the archive writer.
ArchiveCloseSkipped(s, ok) == s

\* A handler that never closes the gzip writer.
GzipCloseSkipped(s, ok) == s

\* archive.Close(): the kept error, or the footer written through.
ArchiveClose(s, ok) ==
    LET s1 == [TarWrite(s, ok) EXCEPT !.closes = Append(@, "archive")]
    IN  IF s1.twErr THEN handleError([s1 EXCEPT !.closeErrs = @ + 1]) ELSE s1

\* wz.Close(): the error an earlier write left, or the gzip header (if no
\* write came before) and the trailer written to the response.
GzipClose(s, ok) ==
    LET s0 == [s EXCEPT !.closes = Append(@, "gzip")]
        e0 == [s0 EXCEPT !.closeErrs = @ + 1]
    IN  IF s0.twErr THEN handleError(e0)
        ELSE LET s1 == [RespWrite(s0, "gz", ok) EXCEPT !.gzWrote = TRUE]
                 e1 == [RespWrite(e0, "gz", ok) EXCEPT !.gzWrote = TRUE]
             IN  IF ok THEN s1 ELSE handleError(e1)

\* A handler that defers no os.RemoveAll.
DeferredDirsNone(s) == {}

\* The directories the deferred os.RemoveAll calls remove.
DeferredDirs(s) == InRange(s.deferred)

Return(r) ==
    /\ rq[r].pc = "return"
    /\ \E ok1 \in BOOLEAN, ok2 \in BOOLEAN :
         Set(r, Finish(GzipClose(ArchiveClose(rq[r], ok1), ok2)))
    /\ dirs' = RemoveAll(dirs, DeferredDirs(rq[r]))
    /\ UNCHANGED <<manifest, remote, sched>>

(***************************************************************************)
(* Specifications.                                                         *)
(***************************************************************************)
\* The layer archives are the same for every manifest that does not list
\* the second layer.
World(m, w) ==
    "https://cdn/l2.tar.gz" \in InRange(m.layers)
       \/ w["https://cdn/l2.tar.gz"][1].name = <<"foo", "bar.txt">>

InitWith(manifests, s) ==
    /\ manifest \in manifests
    /\ remote \in {w \in Remotes : World(manifest, w)}
    /\ dirs = [d \in DirNames |-> 0]
    /\ sched = s
    /\ rq = [r \in Reqs |-> InitReq]

Init == InitWith(BundleManifest, "single")

Next ==
    \E r \in Reqs :
       \/ Serve(r)
       \/ Resolve(r)
       \/ Probe(r)
       \/ Allow(r)
       \/ ImgBegin(r)
       \/ ImgPullStart(r)
       \/ ImgPullEnd(r)
       \/ ImgOpen(r)
       \/ ImgAppend(r)
       \/ PipeGet(r)
       \/ PipeNext(r)
       \/ FileAppend(r)
       \/ Return(r)

Spec == Init /\ [][Next]_vars

\* Two requests served one after the other against the same manifest and
\* the same layer archives.
TwiceManifests ==
    {m \in BundleManifest :
        /\ Len(m.images) <= 1 /\ Len(m.layers) <= 1
        /\ "evil.example.com/foo:latest" \notin InRange(m.images)
        /\ "https://cdn/l2.tar.gz" \notin InRange(m.layers)}

InitTwice == InitWith(TwiceManifests, "serial")

\* One request for a manifest of at most one layer, one file and one image,
\* the image any of AllowRefs.
AllowManifests ==
    [layers : SeqsUpTo({"https://cdn/l1.tar.gz"}, 1),
     files : {[p \in F |-> FileContents(p)] : F \in SUBSET {<<"install.sh">>}},
     images : SeqsUpTo(AllowRefs, 1)]

InitAllow == InitWith(AllowManifests, "single")

SpecAllow == InitAllow /\ [][Next]_vars

\* Two requests that net/http serves at the same time, for a manifest of
\* at most one layer, one image and one file.
ConcManifests ==
    {m \in TwiceManifests : DOMAIN m.files \subseteq {<<"install.sh">>}}

InitConc == InitWith(ConcManifests, "concurrent")

SpecConc == InitConc /\ [][Next]_vars

\* Two requests served one after the other, where every call the handler
\* waits for returns and the handler is run on: a step that can be taken is
\* taken in the end.
InitLive == InitWith(ConcManifests, "serial")

SpecLive == InitLive /\ [][Next]_vars /\ WF_vars(Next)

SpecTwice == InitTwice /\ [][Next]_vars


(***************************************************************************)
(* Properties.                                                             *)
(***************************************************************************)
Finished(s) == s.pc = "done"

\* Every layer of the manifest was probed and every probe passed.
ProbesPassed(s) ==
    /\ Len(s.probes) = Len(s.bundle.layers)
    /\ \A k \in 1..Len(s.probes) : s.probes[k] = "ok"

\* Every image of the manifest was checked and every check allowed it.
ImagesPassed(s) ==
    /\ Len(s.allowed) = Len(s.bundle.images)
    /\ \A k \in 1..Len(s.allowed) : s.allowed[k]

\* The manifest names an image whose registry is not one of the six allowed
\* apex domains.
DeniedHosts == {<<"evil", "example", "com">>}

HasDeniedImage(s) ==
    \E k \in 1..Len(s.bundle.images) : Hostname(s.bundle.images[k]) \in DeniedHosts

NoStreamingWork(s) == s.pulls = <<>> /\ s.gets = <<>> /\ s.awrites = 0

\* A GET that went through without any step failing.
SuccessfulGet(s) ==
    Finished(s) /\ s.method = "GET" /\ s.streaming /\ ~s.failed
       /\ s.status = StatusOK

C2_DeniedImageAlways422 ==
    \A r \in Reqs :
       LET s == rq[r]
       IN  Finished(s) /\ s.resolved /\ HasDeniedImage(s)
           => s.status = StatusUnprocessableEntity /\ NoStreamingWork(s)

\* C2 amended: such a request does no pull, no layer fetch and no archive
\* write; it ends with 422 when every layer probe passed and with 500 when
\* a probe failed (the probes run before the allowlist check).
C2_DeniedImage422AfterProbes ==
    \A r \in Reqs :
       LET s == rq[r]
       IN  Finished(s) /\ s.resolved /\ HasDeniedImage(s)
           => /\ NoStreamingWork(s)
              /\ s.status = IF ProbesPassed(s) THEN StatusUnprocessableEntity
                            ELSE StatusInternalServerError

C2_Witness ==
    \E r \in Reqs :
       LET s == rq[r]
       IN  /\ Finished(s) /\ s.method = "GET" /\ s.resolved /\ HasDeniedImage(s)
           /\ Len(s.probes) = MaxLayers /\ ProbesPassed(s)
           /\ s.status = StatusUnprocessableEntity

\* C3: when the upstream service answers with a status that is neither 2xx
\* nor 404, the response is 500 and no probe, allowlist check, pull, layer
\* fetch or archive write is made, whatever the upstream body holds.
C3_UpstreamErrorIs500 ==
    \A r \in Reqs :
       LET s == rq[r]
       IN  Finished(s) /\ s.upstream = StatusInternalServerError
           => /\ s.status = StatusInternalServerError
              /\ s.probes = <<>> /\ s.allowed = <<>> /\ NoStreamingWork(s)

\* C4: a failure that occurs while no status has been written ends the
\* request with an error status, never with 200.
C4_EarlyFailureIsErrorStatus ==
    \A r \in Reqs :
       LET s == rq[r]
       IN  Finished(s) /\ s.failed /\ s.failAt = 0 => s.status >= 400

\* C5: once the 200 status and an archive byte have been written, no other
\* status is attempted and the body holds nothing but archive bytes.
C5_OnlyArchiveBytesAfterCommit ==
    \A r \in Reqs :
       LET s == rq[r]
       IN  s.status = StatusOK /\ "gz" \in InRange(s.body)
           => ~s.superfluous /\ \A k \in 1..Len(s.body) : s.body[k] = "gz"

\* The place of an entry's group in the archive.
Rank(kind) == CASE kind = "image" -> 1 [] kind = "layer" -> 2 [] OTHER -> 3

RECURSIVE LayerEntriesFrom(_, _)
\* The entries layers k.. of the manifest put in the archive, in order: the
\* source (url, position) of each.
LayerEntriesFrom(layers, k) ==
    IF k > Len(layers) THEN <<>>
    ELSE [e \in 1..Len(remote[layers[k]]) |-> <<layers[k], e - 1>>]
         \o LayerEntriesFrom(layers, k + 1)

\* C6: in every archive no entry of a later group precedes one of an earlier
\* group (images, layers, files); the archive of a successful GET is one
\* entry per image in manifest order, then the entries of each layer in
\* manifest order and in the layer's order, then one entry per file.
C6_EntryOrder ==
    \A r \in Reqs :
       LET s == rq[r]
           e == s.entries
           ni == Len(s.bundle.images)
           le == LayerEntriesFrom(s.bundle.layers, 1)
           nl == Len(le)
           files == DOMAIN s.bundle.files
       IN  /\ \A a \in 1..Len(e), b \in 1..Len(e) :
                 a < b => Rank(e[a].kind) <= Rank(e[b].kind)
           /\ SuccessfulGet(s) =>
                 /\ Len(e) = ni + nl + Cardinality(files)
                 /\ \A k \in 1..ni :
                       /\ e[k].kind = "image" /\ e[k].k = k - 1
                       /\ e[k].src = s.bundle.images[k]
                 /\ \A k \in 1..nl :
                       /\ e[ni + k].kind = "layer"
                       /\ <<e[ni + k].src, e[ni + k].k>> = le[k]
                 /\ \A k \in 1..Cardinality(files) : e[ni + nl + k].kind = "file"
                 /\ {e[ni + nl + k].name : k \in 1..Cardinality(files)} = files

C6_Witness ==
    \E r \in Reqs :
       LET s == rq[r]
       IN  /\ SuccessfulGet(s) /\ Len(s.bundle.images) = MaxImages
           /\ Len(s.bundle.layers) = MaxLayers
           /\ Cardinality(DOMAIN s.bundle.files) = MaxFiles
           /\ s.bundle.layers[1] # s.bundle.layers[2]

\* C7: two successful GETs of the same manifest against the same layer
\* archives write the same entries in the same positions.
C7_SameArchiveTwice ==
    \A a \in Reqs, b \in Reqs :
       SuccessfulGet(rq[a]) /\ SuccessfulGet(rq[b])
          /\ rq[a].bundle = rq[b].bundle
       => rq[a].entries = rq[b].entries

\* C8: the name of every layer entry in the archive is "kurl/" followed by
\* the entry's name in the layer, unchanged, so it lies under kurl/.
C8_LayerEntryUnderKurl ==
    \A r \in Reqs : \A k \in 1..Len(rq[r].entries) :
       LET e == rq[r].entries[k]
       IN  e.kind = "layer"
           => /\ e.name = <<"kurl">> \o remote[e.src][e.k + 1].name
              /\ Len(e.name) >= 2 /\ e.name[1] = "kurl"

\* The scratch directories of a request that exist.
ScratchDirs(r) == {d \in DirNames : dirs[d] = r}

\* C9: after a request has finished, none of its scratch directories exists.
C9_NoScratchDirAfterRequest ==
    \A r \in Reqs : Finished(rq[r]) => ScratchDirs(r) = {}

C9_Witness ==
    \E r \in Reqs :
       /\ Finished(rq[r]) /\ rq[r].failed /\ Len(rq[r].deferred) = 1
       /\ rq[r].pulls # <<>> /\ rq[r].entries = <<>>

\* C10: at any time a request has at most one image pull in progress and at
\* most one scratch directory.
C10_OnePullOneScratchDir ==
    \A r \in Reqs :
       Cardinality(rq[r].pulling) <= 1 /\ Cardinality(ScratchDirs(r)) <= 1

C10_Witness ==
    \E r \in Reqs :
       /\ rq[r].pc = "pulling" /\ rq[r].i = 1 /\ rq[r].pulling = {1}
       /\ Cardinality(ScratchDirs(r)) = 1 /\ Len(rq[r].deferred) = 2

\* The four headers lines 163-166 set before the response of a passed
\* preflight.
SuccessHeaders ==
    { <<"Content-Type", "binary/octet-stream">>,
      <<"Access-Control-Allow-Origin", "*">>,
      <<"Content-Disposition", "attachment">>,
      <<"Transfer-Encoding", "chunked">> }

C12_FailedProbeIs500 ==
    \A r \in Reqs :
       LET s == rq[r]
       IN  Finished(s) /\ (\E k \in 1..Len(s.probes) : s.probes[k] # "ok")
           => /\ s.status = StatusInternalServerError
              /\ NoStreamingWork(s)
              /\ s.entries = <<>> /\ "gz" \notin InRange(s.body)

C12_Witness ==
    \E r \in Reqs :
       /\ Finished(rq[r]) /\ rq[r].method = "GET"
       /\ Len(rq[r].probes) = 2
       /\ rq[r].probes[1] = "ok" /\ rq[r].probes[2] # "ok"
       /\ rq[r].bundle.images # <<>>

\* A GET whose manifest resolved and passed every probe and every check.
GetPastPreflight(s) ==
    /\ s.method = "GET" /\ s.resolved
    /\ ProbesPassed(s) /\ ImagesPassed(s)
    /\ s.pc \notin {"idle", "resolve", "probe"}

\* C13: a GET that passed preflight has closed nothing while it streams and
\* has closed the archive writer and then the gzip writer, each once, when
\* it has returned; the step that closes them tells telemetry once for each
\* close that returned an error and leaves a status already written as it
\* was (the status is 200 when none was written before).
C13_ClosedOnceInOrder ==
    [][\A r \in Reqs :
          LET s == rq[r]
              n == rq'[r]
          IN  GetPastPreflight(n) =>
                /\ n.closes = IF Finished(n) THEN <<"archive", "gzip">> ELSE <<>>
                /\ Finished(n) /\ ~Finished(s) =>
                     /\ n.status = IF s.status = 0 THEN StatusOK ELSE s.status
                     /\ n.notified = s.notified + n.closeErrs
                     /\ n.twErr => n.closeErrs > 0]_vars

C13_Witness ==
    \E r \in Reqs :
       /\ Finished(rq[r]) /\ GetPastPreflight(rq[r])
       /\ rq[r].closes = <<"archive", "gzip">>
       /\ rq[r].closeErrs = 2 /\ rq[r].entries # <<>>
       /\ rq[r].status = StatusOK

\* C14: a request whose upstream lookup answered 404 ends with 404, the
\* upstream body as the text of a GET's response (a HEAD's response has no
\* body), and without any layer probe, allowlist check, image pull, layer
\* fetch or archive write.
C14_NotFoundPassedThrough ==
    \A r \in Reqs :
       LET s == rq[r]
       IN  Finished(s) /\ s.asked /\ s.upstream = StatusNotFound
           => /\ s.status = StatusNotFound
              /\ s.body = IF s.method = "GET" THEN <<s.upbody>> ELSE <<>>
              /\ s.probes = <<>> /\ s.allowed = <<>>
              /\ NoStreamingWork(s) /\ s.entries = <<>> /\ s.closes = <<>>

C14_Witness ==
    \E r \in Reqs :
       /\ Finished(rq[r]) /\ rq[r].method = "GET"
       /\ rq[r].upstream = StatusNotFound /\ rq[r].body = <<"errjson">>
       /\ manifest.layers # <<>> /\ manifest.images # <<>>

\* C15: a GET whose manifest has no layer, no file and no image ends with
\* 200, an archive without entries and both writers closed; when no write
\* to the client failed the body is the compressed archive alone, footer
\* and trailer included.
C15_EmptyManifestEmptyArchive ==
    \A r \in Reqs :
       LET s == rq[r]
       IN  Finished(s) /\ s.method = "GET" /\ s.resolved
              /\ s.bundle.layers = <<>> /\ s.bundle.images = <<>>
              /\ DOMAIN s.bundle.files = {}
           => /\ s.status = StatusOK /\ s.sentHeader = SuccessHeaders
              /\ s.entries = <<>>
              /\ s.closes = <<"archive", "gzip">>
              /\ ~s.failed => s.body = <<"gz">> /\ ~s.twErr /\ s.awrites = 1

C15_Witness ==
    \E r \in Reqs :
       /\ Finished(rq[r]) /\ rq[r].method = "GET" /\ rq[r].resolved
       /\ rq[r].upstream = StatusOK
       /\ rq[r].bundle = [layers |-> <<>>, files |-> <<>>, images |-> <<>>]
       /\ rq[r].body = <<"gz">> /\ ~rq[r].failed

\* The entries of an archive that come from images.
ImageEntries(s) == {k \in 1..Len(s.entries) : s.entries[k].kind = "image"}

\* C16: every image entry of an archive is named kurl/image-overrides/<i>.tar
\* for the 0-based position i of its image in the manifest, no two image
\* entries of an archive have the same name or the same position, and the
\* archive of a successful GET has exactly one entry for each position.
C16_ImageEntryNamedByIndex ==
    \A r \in Reqs :
       LET s == rq[r]
           e == s.entries
           ni == Len(s.bundle.images)
       IN  /\ \A k \in ImageEntries(s) :
                 /\ e[k].k \in 0..(ni - 1)
                 /\ e[k].src = s.bundle.images[e[k].k + 1]
                 /\ e[k].name =
                       <<"kurl", "image-overrides", ToString(e[k].k) \o ".tar">>
           /\ \A a \in ImageEntries(s), b \in ImageEntries(s) :
                 a # b => e[a].name # e[b].name /\ e[a].k # e[b].k
           /\ SuccessfulGet(s) =>
                 \A j \in 0..(ni - 1) :
                    Cardinality({k \in ImageEntries(s) : e[k].k = j}) = 1

C16_Witness ==
    \E r \in Reqs :
       /\ SuccessfulGet(rq[r]) /\ Len(rq[r].bundle.images) = MaxImages
       /\ Cardinality(ImageEntries(rq[r])) = MaxImages
       /\ rq[r].bundle.layers # <<>>

\* The four headers lines 78-81 set on the answer to OPTIONS.
CorsHeaders ==
    { <<"Access-Control-Allow-Origin", "*">>,
      <<"Access-Control-Allow-Methods", "GET">>,
      <<"Access-Control-Allow-Headers",
        "Access-Control-Allow-Origin, Content-Type">>,
      <<"Access-Control-Max-Age", "86400">> }

\* C17: an OPTIONS request ends with 204 and the four CORS headers, without
\* a body, without a call to the upstream manifest service, without a layer
\* probe or an allowlist check and without any pull, fetch or archive
\* write, whatever the manifest and the layer archives are.
C17_OptionsIs204 ==
    \A r \in Reqs :
       LET s == rq[r]
       IN  s.method = "OPTIONS"
           => /\ Finished(s) /\ s.status = StatusNoContent
              /\ s.sentHeader = CorsHeaders /\ s.body = <<>>
              /\ ~s.asked /\ s.upstream = 0 /\ ~s.resolved
              /\ s.probes = <<>> /\ s.allowed = <<>>
              /\ NoStreamingWork(s) /\ s.closes = <<>> /\ s.notified = 0

C17_Witness ==
    \E r \in Reqs :
       /\ Finished(rq[r]) /\ rq[r].method = "OPTIONS"
       /\ Len(manifest.layers) = MaxLayers /\ Len(manifest.images) = MaxImages
       /\ "evil.example.com/foo:latest" \in InRange(manifest.images)

\* The six apex domains of the switch at line 356.
AllowedApexes ==
    { <<"docker", "io">>, <<"gcr", "io">>, <<"ghcr", "io">>,
      <<"azurecr", "io">>, <<"ttl", "sh">>,
      <<"ecr", "us-east-1", "amazonaws", "com">> }

\* C18: every answer of the allowlist validator is "allowed" exactly when
\* "https://" + reference parses and the effective TLD plus one of its
\* hostname is one of the six allowlist domains; a reference that does not
\* parse and a hostname without an apex domain are denied.
C18_AllowedIffApexListed ==
    \A r \in Reqs :
       LET s == rq[r]
       IN  \A k \in 1..Len(s.allowed) :
              LET image == s.bundle.images[k]
                  parsed == UrlParse(image)
                  apex == EffectiveTLDPlusOne(parsed.host)
              IN  /\ s.allowed[k] <=> (~parsed.err /\ apex \in AllowedApexes)
                  /\ parsed.err \/ apex = <<>> => ~s.allowed[k]

C18_Witness ==
    \E r \in Reqs :
       /\ Finished(rq[r]) /\ rq[r].allowed = <<FALSE>>
       /\ rq[r].bundle.images = <<"gcr.io:bad/foo">>
       /\ rq[r].status = StatusUnprocessableEntity

\* The states of a request between the creation of a scratch directory and
\* the end of the iteration that uses it.
UsesTempDir(s) == s.pc \in {"pull", "pulling", "open", "append"}

\* C19: the scratch directory a request is working in exists and is that
\* request's own, whatever the other requests do.
C19_ScratchDirExclusive ==
    \A r \in Reqs :
       UsesTempDir(rq[r]) => dirs[rq[r].tempDir] = r

\* C20: once a step of a request has failed (a failure the handler handled
\* or a failed write of the archive), the request starts no further image
\* pull and no further layer fetch and adds no further archive entry; and
\* no image position and no layer position is pulled or fetched twice.
C20_NothingAfterFailure ==
    [][\A r \in Reqs :
          LET s == rq[r]
              n == rq'[r]
          IN  /\ s.failed \/ s.twErr =>
                   n.pulls = s.pulls /\ n.gets = s.gets /\ n.entries = s.entries
              /\ \A a \in 1..Len(n.pulls), b \in 1..Len(n.pulls) :
                    a # b => n.pulls[a] # n.pulls[b]
              /\ \A a \in 1..Len(n.gets), b \in 1..Len(n.gets) :
                    a # b => n.gets[a] # n.gets[b]]_vars

\* C21: once a write of the archive has failed, the next step of the request
\* is its unwinding: it starts no further layer fetch, adds no further
\* entry and leaves the loops, also when the entry whose header write
\* failed has content of length zero.
C21_WriteFailureUnwinds ==
    [][\A r \in Reqs :
          LET s == rq[r]
              n == rq'[r]
          IN  s.twErr /\ s.pc \notin {"return", "done"} /\ n # s =>
                 /\ n.pc \in {"return", "done"}
                 /\ n.gets = s.gets /\ n.entries = s.entries]_vars

\* C23: the archive of a GET that ended with 200 and whose archive writer
\* and gzip writer were both closed without error has one entry for every
\* image, for every entry of every layer and for every inline file of the
\* manifest.
C23_CleanArchiveIsComplete ==
    \A r \in Reqs :
       LET s == rq[r]
           e == s.entries
           le == LayerEntriesFrom(s.bundle.layers, 1)
       IN  Finished(s) /\ s.method = "GET" /\ s.status = StatusOK
              /\ s.closes = <<"archive", "gzip">> /\ s.closeErrs = 0
           => /\ \A j \in 1..Len(s.bundle.images) :
                    \E k \in 1..Len(e) : e[k].kind = "image" /\ e[k].k = j - 1
              /\ \A j \in 1..Len(le) :
                    \E k \in 1..Len(e) :
                       e[k].kind = "layer" /\ <<e[k].src, e[k].k>> = le[j]
              /\ \A path \in DOMAIN s.bundle.files :
                    \E k \in 1..Len(e) : e[k].kind = "file" /\ e[k].name = path
              /\ Len(e) = Len(s.bundle.images) + Len(le)
                             + Cardinality(DOMAIN s.bundle.files)

\* C24: a request that has returned has closed every handle it opened on an
\* image archive, whether it succeeded or failed after the open.
C24_NoOpenHandleAfterReturn ==
    \A r \in Reqs : Finished(rq[r]) => rq[r].fds = 0

\* The place of a position of the handler in the order ResolvingManifest,
\* PreflightValidating, StreamingImages, StreamingLayers, StreamingFiles,
\* then the unwinding and the end (Done or Aborted).
Phase(pc) ==
    CASE pc = "idle" -> 0
      [] pc = "resolve" -> 1
      [] pc = "probe" -> 2
      [] pc \in {"image", "pull", "pulling", "open", "append"} -> 3
      [] pc \in {"layer", "pipe"} -> 4
      [] pc = "file" -> 5
      [] pc = "return" -> 6
      [] OTHER -> 7

\* C22: no step takes a request back to an earlier state of the order
\* ResolvingManifest, PreflightValidating, StreamingImages, StreamingLayers,
\* StreamingFiles; a turn of the entry loop that stays in the loop moves one
\* entry on and never past the end of the layer; and when every call
\* returns, every request ends (Done or Aborted).
C22_ForwardAndEnds ==
    /\ [][\A r \in Reqs :
             LET s == rq[r]
                 n == rq'[r]
             IN  /\ Phase(n.pc) >= Phase(s.pc)
                 /\ s.pc = "pipe" /\ n.pc = "pipe" =>
                       /\ n.ei = s.ei + 1
                       /\ n.ei <= Len(remote[s.bundle.layers[s.li + 1]])]_vars
    /\ \A r \in Reqs : <>Finished(rq[r])

C22_Witness ==
    \E r \in Reqs :
       /\ SuccessfulGet(rq[r])
       /\ \A kind \in {"image", "layer", "file"} :
             \E k \in 1..Len(rq[r].entries) : rq[r].entries[k].kind = kind
       /\ \E q \in Reqs : Finished(rq[q]) /\ rq[q].failed

====
